---------------------------- MODULE Spec2Model ----------------------------
(***************************************************************************)
(* Model of hvlck/spell (package spell, src/main.go, head revision at      *)
(* lines 1-593; the oldest revision's ld at lines 1359-1423).              *)
(*                                                                         *)
(* A Go string is modelled as the sequence of its bytes (see Strings       *)
(* below); Go's 0-based index x[k] is the sequence's x[k+1].  float64      *)
(* values are modelled by exact integers and rationals (see Weights).      *)
(***************************************************************************)
EXTENDS Integers, Sequences, FiniteSets, TLC

VARIABLES
    n,       \* PartialMatch: the trie, as the set of entries loadTrie inserted
    s,       \* PartialMatch: the query
    target,  \* PartialMatch: the edit-distance budget
    max,     \* PartialMatch: the capacity
    f,       \* PartialMatch: the candidates search_lev returned
    k,       \* PartialMatch: 1-based position of `for _, v := range f`
    res,     \* PartialMatch: the result buffer
    lim,     \* PartialMatch: the acceptance threshold
    last,    \* PartialMatch: the insertion index
    pc,      \* PartialMatch: "start", "loop", "done"; "idle" outside it
    all_keys,\* the package-level flattened key table, filled on first use
    fn,      \* pure-function harness: the function applied ("none" before)
    args,    \* pure-function harness: its arguments
    ret,     \* pure-function harness: its result
    dict,    \* the package-level word list Correct scans
    calls    \* the KeyProximity calls running concurrently, one per goroutine

vars == <<n, s, target, max, f, k, res, lim, last, pc, all_keys, fn, args, ret,
          dict, calls>>

pmVars == <<n, s, target, max, f, k, res, lim, last, pc>>
fnVars == <<fn, args, ret>>
goVars == <<dict, calls>>

-----------------------------------------------------------------------------
(* Bounds of the model.                                                    *)

\* longest string handed to the distance functions
MaxLen == 3

\* characters of the strings handed to the distance functions
Alphabet == {"a", "b", "c"}

\* all strings over alphabet A of length at most L
Strings(A, L) == UNION {[1..m -> A] : m \in 0..L}

-----------------------------------------------------------------------------
(* Arithmetic helpers of main.go.                                          *)

\* uint8 conversion and wrap-around
U8(x) == x % 256

\* func min(v ...T) T
min(v) == CHOOSE m \in {v[i] : i \in DOMAIN v} : \A i \in DOMAIN v : m <= v[i]

\* func max(numbers ...T) T: starts from 0, so never below 0
maxOf(numbers) ==
    LET cands == {0} \cup {numbers[i] : i \in DOMAIN numbers}
    IN  CHOOSE h \in cands : \A c \in cands : c <= h

\* func abs(x T) T
abs(x) == IF x < 0 THEN 0 - x ELSE x - 0

-----------------------------------------------------------------------------
(* Strings.  A Go string is a sequence of bytes, and the model writes it   *)
(* as a sequence whose elements are bytes: an ASCII byte is the character  *)
(* itself ("a"), any other byte is its two hexadecimal digits ("C3").      *)
(* Indexing (o[i]) yields a byte; `for i, v := range t` decodes UTF-8 and  *)
(* yields the byte offset i and the rune v.  A rune is written as its      *)
(* character when it is ASCII and as its code point otherwise ("U+00E9").  *)

\* the bytes above 0x7F that the model uses: the encoding of U+00E9 (C3 A9)
\* and of the replacement character U+FFFD (EF BF BD)
NonAsciiBytes == {"C3", "A9", "EF", "BF", "BD"}

\* one step of `range w` at the byte position i: the rune decoded and the
\* number of bytes it takes; a byte that starts no valid encoding yields
\* U+FFFD and takes one byte
DecodeRune(w, i) ==
    IF w[i] \notin NonAsciiBytes THEN [rune |-> w[i], width |-> 1]
    ELSE IF i + 1 <= Len(w) /\ w[i] = "C3" /\ w[i + 1] = "A9"
         THEN [rune |-> "U+00E9", width |-> 2]
    ELSE IF i + 2 <= Len(w) /\ w[i] = "EF" /\ w[i + 1] = "BF" /\ w[i + 2] = "BD"
         THEN [rune |-> "U+FFFD", width |-> 3]
    ELSE [rune |-> "U+FFFD", width |-> 1]

\* rune(o[i]): the byte's value taken as a code point
ByteAsRune(b) ==
    IF b \notin NonAsciiBytes THEN b
    ELSE IF b = "C3" THEN "U+00C3"
    ELSE IF b = "A9" THEN "U+00A9"
    ELSE IF b = "EF" THEN "U+00EF"
    ELSE IF b = "BF" THEN "U+00BF"
    ELSE "U+00BD"

\* string(v) for a rune v: its UTF-8 encoding
EncodeRune(r) ==
    IF r = "U+00E9" THEN <<"C3", "A9">>
    ELSE IF r = "U+FFFD" THEN <<"EF", "BF", "BD">>
    ELSE <<r>>

-----------------------------------------------------------------------------
(* levenshtein (head revision): one row of uint8 cells, with a             *)
(* transposition shortcut.                                                 *)

RECURSIVE LevCols(_, _, _, _, _, _, _)
\* the inner loop `for j := 1; j <= len(a); j++` of row i; yields the row
\* and the last cell written
LevCols(a, b, i, j, prev_row, bl, current) ==
    IF j > Len(a) THEN [prev_row |-> prev_row, current |-> current]
    ELSE
      LET tr  == IF i = 1 THEN U8(j) ELSE prev_row[j]
          tl  == prev_row[j - 1]
          cur == IF a[j] = b[i] THEN tl
                 ELSE IF /\ (j < Len(a) /\ i < Len(b))
                         /\ (j + 1 < Len(a) /\ i + 1 < Len(b))
                         /\ a[j] = b[i + 1]
                         /\ a[j + 1] = b[i]
                      THEN tl
                      ELSE U8(min(<<tl, tr, bl>>) + 1)
      IN  LevCols(a, b, i, j + 1, [prev_row EXCEPT ![j] = cur], cur, cur)

RECURSIVE LevRows(_, _, _, _, _)
\* the outer loop `for i := 1; i <= len(b); i++`
LevRows(a, b, i, prev_row, result) ==
    IF i > Len(b) THEN result
    ELSE
      LET row == LevCols(a, b, i, 1, [prev_row EXCEPT ![0] = U8(i)], U8(i), 0)
      IN  LevRows(a, b, i + 1, row.prev_row, row.current)

levenshtein(a, b) ==
    IF a = <<>> THEN Len(b)
    ELSE IF b = <<>> THEN Len(a)
    ELSE IF a = b THEN 0
    ELSE LevRows(a, b, 1, [j \in 0..Len(a) |-> U8(j)], 0)

-----------------------------------------------------------------------------
(* ld (oldest revision, the function the tests call): the same sweep with  *)
(* the previous top-left cell carried in ptl, and no transposition.        *)

RECURSIVE LdCols(_, _, _, _, _, _, _, _)
LdCols(a, b, i, j, row, ptl, bl, current) ==
    IF j > Len(a) THEN [row |-> row, current |-> current]
    ELSE
      LET tr  == IF i = 1 THEN U8(j) ELSE row[j]
          tl  == ptl
          cur == IF a[j] = b[i] THEN tl ELSE U8(min(<<tl, tr, bl>>) + 1)
      IN  LdCols(a, b, i, j + 1, [row EXCEPT ![j] = cur], row[j], cur, cur)

RECURSIVE LdRows(_, _, _, _, _)
LdRows(a, b, i, row, current) ==
    IF i > Len(b) THEN current
    ELSE
      LET r == LdCols(a, b, i, 1, [row EXCEPT ![0] = U8(i - 1)], U8(i - 1), U8(i), 0)
      IN  LdRows(a, b, i + 1, r.row, r.current)

ld(a, b) ==
    IF a = <<>> THEN U8(Len(b))
    ELSE IF b = <<>> THEN U8(Len(a))
    ELSE IF a = b THEN 0
    ELSE LdRows(a, b, 1, [j \in 0..Len(a) |-> U8(j)], 0)

-----------------------------------------------------------------------------
(* levenshtein_with_operations: the full matrix, the matrix of operations  *)
(* and the backtracking that tallies them.                                 *)
(* result[1] = total, [2] = op 1, [3] = ops 2 and 3, [4] = op 4            *)
(* (Go's results[0..3]).                                                   *)

\* the operation recorded for a cell: the switch of lines 528-542
OpOf(m, sub, ins, del, trans, cost) ==
    IF m = sub /\ cost = 1 THEN 1
    ELSE IF m = ins THEN 2
    ELSE IF m = del THEN 3
    ELSE IF m = trans THEN 4
    ELSE 0

\* a mutant of TransCost: a transposition costs nothing
TransCostFree(cost) == 0

\* what a transposition adds to matrix[i-2][j-2] (line 523)
TransCost(cost) == cost

RECURSIVE LwoFill(_, _, _, _, _, _)
\* the nested loops of lines 506-544, cell (i, j) onwards, row by row
LwoFill(a, b, i, j, matrix, ops) ==
    IF i > Len(a) THEN [matrix |-> matrix, ops |-> ops]
    ELSE IF j > Len(b) THEN LwoFill(a, b, i + 1, 1, matrix, ops)
    ELSE
      LET cost  == IF a[i] # b[j] THEN 1 ELSE 0
          ins   == matrix[i][j - 1] + 1
          del   == matrix[i - 1][j] + 1
          sub   == matrix[i - 1][j - 1] + cost
          m0    == min(<<ins, del, sub>>)
          can   == (i > 1 /\ j > 1) /\ a[i - 1] = b[j] /\ a[i] = b[j - 1]
          trans == IF can THEN matrix[i - 2][j - 2] + TransCost(cost) ELSE -1
          m     == IF can THEN min(<<m0, trans>>) ELSE m0
          op    == OpOf(m, sub, ins, del, trans, cost)
      IN  LwoFill(a, b, i, j + 1,
                  [matrix EXCEPT ![i][j] = m], [ops EXCEPT ![i][j] = op])

RECURSIVE LwoBack(_, _, _, _)
\* the backtracking loop of lines 547-590
LwoBack(ops, lenA, lenB, results) ==
    IF ~(lenA > -1 \/ lenB > -1) THEN results
    ELSE
      LET decA == IF lenA = 0 THEN 0 ELSE 1
          decB == IF lenB = 0 THEN 0 ELSE 1
          op   == ops[lenA][lenB]
      IN  IF decB = 0 /\ decA = 0 THEN results
          ELSE IF op = 1 THEN
              LwoBack(ops, lenA - decA, lenB - decB,
                      [results EXCEPT ![2] = @ + 1])
          ELSE IF op = 2 THEN
              LwoBack(ops,
                      IF lenB - decB = 0 THEN lenA - decA ELSE lenA,
                      lenB - decB,
                      [results EXCEPT ![3] = @ + 1])
          ELSE IF op = 3 THEN
              LwoBack(ops,
                      lenA - decA,
                      IF lenA - decA = 0 THEN lenB - decB ELSE lenB,
                      [results EXCEPT ![3] = @ + 1])
          ELSE IF op = 4 THEN
              LwoBack(ops, lenA - decA * 2, lenB - decB * 2,
                      [results EXCEPT ![4] = @ + 1])
          ELSE
              LwoBack(ops, lenA - decA, lenB - decB, results)

levenshtein_with_operations(a, b) ==
    IF a = <<>> \/ b = <<>> THEN <<maxOf(<<Len(a), Len(b)>>), 0, 0, 0>>
    ELSE IF a = b THEN <<0, 0, 0, 0>>
    ELSE
      LET matrix0 == [i \in 0..Len(a) |-> [j \in 0..Len(b) |->
                         IF j = 0 THEN i ELSE IF i = 0 THEN j ELSE 0]]
          ops0    == [i \in 0..Len(a) |-> [j \in 0..Len(b) |->
                         IF j = 0 \/ i = 0 THEN 1 ELSE 0]]
          t       == LwoFill(a, b, 1, 1, matrix0, ops0)
      IN  LwoBack(t.ops, Len(a), Len(b),
                  <<t.matrix[Len(a)][Len(b)], 0, 0, 0>>)

-----------------------------------------------------------------------------
(* KeyProximity and the key table.                                         *)

\* var keys: 4 rows of 13 keys ("grave" stands for the backquote character,
\* which a TLA+ string cannot hold)
keys == <<
    <<"grave", "1", "2", "3", "4", "5", "6", "7", "8", "9", "0", "-", "=">>,
    <<"q", "w", "e", "r", "t", "y", "u", "i", "o", "p", "[", "]", "\\">>,
    <<"a", "s", "d", "f", "g", "h", "j", "k", "l", ";", "'", " ", " ">>,
    <<"z", "x", "c", "v", "b", "n", "m", ",", ".", "/", " ", " ", " ">> >>

\* the row width the code divides by
RowWidth == 13

UpperCase == <<"A", "B", "C", "D", "E", "F", "G", "H", "I", "J", "K", "L", "M",
               "N", "O", "P", "Q", "R", "S", "T", "U", "V", "W", "X", "Y", "Z">>
LowerCase == <<"a", "b", "c", "d", "e", "f", "g", "h", "i", "j", "k", "l", "m",
               "n", "o", "p", "q", "r", "s", "t", "u", "v", "w", "x", "y", "z">>

\* unicode.ToLower on the runes of the model; U+00C3 is the one upper-case
\* letter among the non-ASCII runes
ToLower(c) ==
    IF \E i \in DOMAIN UpperCase : UpperCase[i] = c
    THEN LowerCase[CHOOSE i \in DOMAIN UpperCase : UpperCase[i] = c]
    ELSE IF c = "U+00C3" THEN "U+00E3"
    ELSE c

\* lines 175-179: the table is flattened into all_keys when it is empty
FillAllKeys(ak) ==
    IF Len(ak) = 0 THEN keys[1] \o keys[2] \o keys[3] \o keys[4] ELSE ak

\* lines 191-194: idx is Go's index plus one, i.e. the 1-based position;
\* c = idx / 13 and r = idx - c*13
KeyPos(idx) == [c |-> idx \div RowWidth, r |-> idx - (idx \div RowWidth) * RowWidth]

\* the loop of lines 190-201 for one character: every match overwrites the
\* position found before, so the last match stands; without a match the
\* position stays (0, 0)
KeyScan(ak, ch) ==
    LET hits == {idx \in 1..Len(ak) : ak[idx] = ToLower(ch)}
    IN  IF hits = {} THEN [c |-> 0, r |-> 0]
        ELSE KeyPos(CHOOSE idx \in hits : \A h \in hits : h <= idx)

\* KeyProximity on the table ak (all_keys after lines 175-179)
KeyProximityOn(ak, original, target_) ==
    IF original = target_ THEN 0
    ELSE
      LET pO       == KeyScan(ak, original)
          pT       == KeyScan(ak, target_)
          rowDiff  == abs(pT.r - pO.r)
          colDiff  == abs(pT.c - pO.c)
          key_case == IF (ToLower(original) = original) # (ToLower(target_) = target_)
                      THEN 1 ELSE 0
      IN  U8(U8(maxOf(<<colDiff, rowDiff>>)) + key_case)

\* KeyProximity as any caller sees it: the table is filled before it is read
KeyProximity(original, target_) ==
    KeyProximityOn(FillAllKeys(<<>>), original, target_)

-----------------------------------------------------------------------------
(* Weights.  A float64 weight is modelled exactly: +Inf, or the rational   *)
(* num/den with den > 0.  Every weight the code computes is a sum of       *)
(* non-negative terms, so no NaN arises.  The rounding of float64 is not   *)
(* modelled: two weights compare here as the real numbers they stand for.  *)

\* math.Inf(1)
WInf == [inf |-> TRUE, num |-> 0, den |-> 1]

\* the float64 zero value
WZero == [inf |-> FALSE, num |-> 0, den |-> 1]

\* x < y on weights; finite weights are compared by their integer parts
\* first, then by the fractional remainders
WLess(x, y) ==
    IF x.inf THEN FALSE
    ELSE IF y.inf THEN TRUE
    ELSE LET qx == x.num \div x.den
             qy == y.num \div y.den
         IN  IF qx # qy THEN qx < qy
             ELSE (x.num % x.den) * y.den < (y.num % y.den) * x.den

\* x >= y and x > y on weights
WGeq(x, y) == ~WLess(x, y)
WGreater(x, y) == WLess(y, x)

\* x == 0 on weights
WIsZero(x) == ~x.inf /\ x.num = 0

-----------------------------------------------------------------------------
(* Correction and the scorer.                                              *)

\* the zero value of Correction, as make([]Correction, max) fills it
ZeroCorrection ==
    [Word |-> <<>>, ld |-> <<0, 0, 0, 0>>, prefix_len |-> 0, suffix_len |-> 0,
     frequency |-> 0, key_len |-> 0, Weight |-> WZero]

RECURSIVE PrefixLengthFrom(_, _, _, _)
\* the loop `for i, v := range t` of PrefixLength at the byte position i of
\* t, with n = cnt: the rune v of t is compared with the byte o[i]
PrefixLengthFrom(o, t, i, cnt) ==
    IF i > Len(t) THEN cnt
    ELSE IF Len(o) < i THEN cnt
    ELSE IF DecodeRune(t, i).rune = ByteAsRune(o[i])
         THEN PrefixLengthFrom(o, t, i + DecodeRune(t, i).width, U8(cnt + 1))
    ELSE cnt

PrefixLength(o, t) == PrefixLengthFrom(o, t, 1, 0)

RECURSIVE ReverseFrom(_, _, _)
\* the loop `for _, v := range s { res = string(v) + res }` at the byte
\* position i
ReverseFrom(w, i, result) ==
    IF i > Len(w) THEN result
    ELSE ReverseFrom(w, i + DecodeRune(w, i).width,
                     EncodeRune(DecodeRune(w, i).rune) \o result)

\* func reverse(s string) string
reverse(w) == ReverseFrom(w, 1, <<>>)

\* func SharedCharacters(original, target string) float64
SharedCharacters(original, target_) ==
    Cardinality({i \in 1..min(<<Len(original), Len(target_)>>) :
                    original[i] = target_[i]})

\* the weights of the edit-distance counts, as <<numerator, denominator>>:
\* LEV_WEIGHT = 1e-5, LEV_SUB_WEIGHT = 10, LEV_INDEL_WEIGHT = 1,
\* LEV_SWAP_WEIGHT = .1, indexed as lev_weights is (Go's 0..3)
lev_weights == << <<1, 100000>>, <<10, 1>>, <<1, 1>>, <<1, 10>> >>

KEYDIST_WEIGHT == 20
PREFIX_WEIGHT == 1
SUFFIX_WEIGHT == PREFIX_WEIGHT
FREQUENCY_WEIGHT == 10
MATCHES_WEIGHT == 1

\* what wprefix_len == wsuffix_len adds to magic_weight (line 314)
MagicEqualBonus == 25

RECURSIVE KeyLenFrom(_, _, _, _)
\* the loop `for i, v := range c.Word` of lines 276-282 at the byte
\* position i, with the uint8 sum so far
KeyLenFrom(word, original, i, key_len) ==
    IF i > Len(word) THEN key_len
    ELSE IF Len(original) < i THEN key_len
    ELSE KeyLenFrom(word, original, i + DecodeRune(word, i).width,
                    U8(key_len + KeyProximity(DecodeRune(word, i).rune,
                                              ByteAsRune(original[i]))))

\* lines 275-288: the key distances of the overlap plus the length difference
KeyLen(word, original) ==
    LET over == KeyLenFrom(word, original, 1, 0)
    IN  IF Len(original) > Len(word) THEN U8(over + U8(Len(original) - Len(word)))
        ELSE IF Len(word) > Len(original) THEN U8(over + U8(Len(word) - Len(original)))
        ELSE over

RECURSIVE WldDiv(_, _, _)
\* lines 296-302: the product of the non-zero ld[i] * lev_weights[i], as
\* <<numerator, denominator>>
WldDiv(ldv, i, acc) ==
    IF i > 4 THEN acc
    ELSE IF ldv[i] * lev_weights[i][1] # 0
         THEN WldDiv(ldv, i + 1, <<acc[1] * ldv[i] * lev_weights[i][1],
                                   acc[2] * lev_weights[i][2]>>)
         ELSE WldDiv(ldv, i + 1, acc)

\* func (c *Correction) weigh(original string)
weigh(c, original) ==
    IF c.Word = original THEN [c EXCEPT !.Weight = WInf]
    ELSE
      LET key_len    == KeyLen(c.Word, original)
          prefix_len == PrefixLength(c.Word, original)
          suffix_len == PrefixLength(reverse(c.Word), reverse(original))
          wld_div    == WldDiv(c.ld, 1, <<1, 1>>)
          \* wld = 1 / wld_div
          wldNum     == wld_div[2]
          wldDen     == wld_div[1]
          wprefix    == PREFIX_WEIGHT * prefix_len
          wsuffix    == SUFFIX_WEIGHT * suffix_len
          magic      == IF wprefix = wsuffix THEN MagicEqualBonus ELSE 0
          whole      == wprefix + FREQUENCY_WEIGHT * c.frequency
                        + MATCHES_WEIGHT * SharedCharacters(original, c.Word)
                        + wsuffix + magic
          weight     == IF c.ld[1] = 0 \/ key_len = 0 THEN WInf
                        ELSE [inf |-> FALSE,
                              num |-> wldNum * key_len + KEYDIST_WEIGHT * wldDen
                                      + whole * wldDen * key_len,
                              den |-> wldDen * key_len]
      IN  [c EXCEPT !.key_len = key_len, !.prefix_len = prefix_len,
                    !.suffix_len = suffix_len, !.Weight = weight]

-----------------------------------------------------------------------------
(* The trie (github.com/hvlck/txt, built by loadTrie) as search_lev reads  *)
(* it.  A trie is the set of the entries inserted, [word, data]; a node is *)
(* the path that leads to it, and the root (Id == 0) is the empty path.    *)

\* n.Kids of the node at path b: the next characters of the longer words
Kids(trie, b) ==
    {e.word[Len(b) + 1] : e \in {x \in trie : /\ Len(x.word) > Len(b)
                                               /\ SubSeq(x.word, 1, Len(b)) = b}}

\* v.Done: a word ends at the node
Done(trie, b) == \E e \in trie : e.word = b

\* v.Data: the payload inserted with the word
Data(trie, b) == (CHOOSE e \in trie : e.word = b).data

Digits == <<"0", "1", "2", "3", "4", "5", "6", "7", "8", "9">>

\* the number a digit character stands for
DigitValue(ch) == (CHOOSE i \in DOMAIN Digits : Digits[i] = ch) - 1

RECURSIVE Decimal(_, _, _)
\* the number a string of digits stands for
Decimal(data, i, acc) ==
    IF i > Len(data) THEN acc
    ELSE Decimal(data, i + 1, acc * 10 + DigitValue(data[i]))

\* strconv.ParseFloat(string(v.Data), 64), with freq = 0 on an error; the
\* payloads of the model are strings of digits (numeric) or hold a
\* character that no number holds (an error)
ParseFreq(data) ==
    IF data # <<>> /\ \A i \in DOMAIN data : \E d \in DOMAIN Digits : Digits[d] = data[i]
    THEN Decimal(data, 1, 0)
    ELSE 0

\* the orders in which `for rn, v := range n.Kids` can visit a map's keys
RangeOrders(S) ==
    {p \in [1..Cardinality(S) -> S] : \A i, j \in DOMAIN p : i # j => p[i] # p[j]}

RECURSIVE ConcatChoices(_, _)
\* all concatenations of one sequence out of each set of sets[i..]
ConcatChoices(sets, i) ==
    IF i > Len(sets) THEN {<<>>}
    ELSE {x \o y : x \in sets[i], y \in ConcatChoices(sets, i + 1)}

\* a mutant of WithinLimit: the limit is not applied
WithinLimitAlways(lev, limit) == TRUE

\* line 100: lev[0] <= limit
WithinLimit(lev, limit) == lev[1] <= limit

RECURSIVE search_lev(_, _, _, _)
\* search_lev(n, s, b, limit) at the node of path b: the set of the slices
\* it can return, one for each order of the map iterations
search_lev(trie, query, b, limit) ==
    LET kids == Kids(trie, b)
        lev  == levenshtein_with_operations(b, query)
        \* one iteration of the loop, for the kid reached by rn
        visit(rn) ==
            LET v == Append(b, rn)
            IN  IF b = <<>> THEN search_lev(trie, query, <<rn>>, limit)
                ELSE IF Done(trie, v) /\ Kids(trie, v) = {}
                THEN IF WithinLimit(lev, limit)
                     THEN {<<[ZeroCorrection EXCEPT
                                 !.ld = lev, !.Word = b,
                                 !.frequency = ParseFreq(Data(trie, v))]>>}
                     ELSE {<<>>}
                ELSE search_lev(trie, query, v, limit)
    IN  UNION {ConcatChoices([i \in 1..Cardinality(kids) |-> visit(p[i])], 1) :
                  p \in RangeOrders(kids)}

-----------------------------------------------------------------------------
(* PartialMatch: the selection loop over the candidates of search_lev.     *)

\* res := make([]Correction, max)
MakeRes(cap) == [i \in 1..cap |-> ZeroCorrection]

\* whether a buffer is in the order sort.Slice's less function asks for
SortedByWeight(r) ==
    \A i \in 1..(Len(r) - 1) : ~WLess(r[i + 1].Weight, r[i].Weight)

\* a mutant of SortSlice: the buffer is left as it is
SortSliceSkipped(r) == {r}

\* sort.Slice(res, func(i, j int) bool { return res[i].Weight < res[j].Weight }):
\* the sort is not stable, so every sorted arrangement of the entries is a
\* possible outcome
SortSlice(r) ==
    {q \in {[i \in DOMAIN r |-> r[p[i]]] : p \in RangeOrders(DOMAIN r)} :
        SortedByWeight(q)}

\* a mutant of Store: the candidate is appended instead of assigned
StoreAppended(r, i, v) == Append(r, v)

\* res[i] = v (i is Go's index plus one)
Store(r, i, v) == [r EXCEPT ![i] = v]

\* a mutant of NextLim: the threshold follows every candidate
NextLimLatest(l, v) == v.Weight

\* lines 337-339: the first candidate's weight becomes the threshold
NextLim(l, v) == IF WIsZero(l) THEN v.Weight ELSE l

\* line 343: `n := res[last]; len(n.Word) != 0 && n.ld[0] != 0`
Filled(r, lst) == Len(r[lst + 1].Word) # 0 /\ r[lst + 1].ld[1] # 0

\* lines 345-354: the first entry with a smaller weight is replaced, if the
\* candidate is within the budget; then the buffer is sorted
Replace(r, v, tgt) ==
    LET hits == {i \in DOMAIN r : WGreater(v.Weight, r[i].Weight) /\ v.ld[1] <= tgt}
    IN  IF hits = {} THEN {r}
        ELSE SortSlice(Store(r, CHOOSE i \in hits : \A h \in hits : i <= h, v))

\* one iteration of the loop of lines 333-367 on the candidate v0, from the
\* state st = [res, lim, last]: the set of the states it can lead to
PartialMatchStep(st, v0, query, tgt, cap) ==
    LET v    == weigh(v0, query)
        lim1 == NextLim(st.lim, v)
    IN  IF WGeq(v.Weight, lim1)
        THEN IF Filled(st.res, st.last)
             THEN {[res |-> r, lim |-> lim1, last |-> st.last] :
                      r \in Replace(st.res, v, tgt)}
             ELSE IF st.last < cap
             THEN {[res |-> r, lim |-> lim1,
                    last |-> IF st.last + 1 < cap THEN st.last + 1 ELSE st.last] :
                      r \in SortSlice(Store(st.res, st.last + 1, v))}
             ELSE {[res |-> st.res, lim |-> lim1, last |-> st.last]}
        ELSE {[res |-> st.res, lim |-> lim1, last |-> st.last]}

RECURSIVE PartialMatchFrom(_, _, _, _, _, _)
\* the buffers PartialMatch can return once the loop has run over g[i..]
PartialMatchFrom(g, i, st, query, tgt, cap) ==
    IF i > Len(g) THEN {st.res}
    ELSE UNION {PartialMatchFrom(g, i + 1, st2, query, tgt, cap) :
                   st2 \in PartialMatchStep(st, g[i], query, tgt, cap)}

\* the buffers PartialMatch can return for the candidates g in that order
PartialMatch(g, query, tgt, cap) ==
    PartialMatchFrom(g, 1, [res |-> MakeRes(cap), lim |-> WZero, last |-> 0],
                     query, tgt, cap)

RECURSIVE KeyCallsDiffer(_, _, _)
\* whether the loop of lines 276-282, from the byte position i onwards,
\* hands KeyProximity two different runes
KeyCallsDiffer(word, original, i) ==
    IF i > Len(word) THEN FALSE
    ELSE IF Len(original) < i THEN FALSE
    ELSE \/ DecodeRune(word, i).rune # ByteAsRune(original[i])
         \/ KeyCallsDiffer(word, original, i + DecodeRune(word, i).width)

\* whether weigh(c, original) calls KeyProximity on two different
\* characters, which fills all_keys
WeighFillsKeys(c, original) ==
    /\ c.Word # original
    /\ KeyCallsDiffer(c.Word, original, 1)

-----------------------------------------------------------------------------
(* The PartialMatch specification.                                         *)

\* most entries in a trie
MaxWords == 3
\* longest query
MaxQueryLen == 2
\* largest edit-distance budget
MaxTarget == 2
\* largest capacity
MaxResults == 3

\* the lines of the dictionary file a trie is loaded from: word, payload
Dictionary ==
    {[word |-> <<"a", "a">>, data |-> <<"1">>],
     [word |-> <<"a", "b">>, data |-> <<"2">>],
     [word |-> <<"s">>, data |-> <<"1">>],
     [word |-> <<"s", "a">>, data |-> <<"x">>],
     [word |-> <<"s", "s", "a">>, data |-> <<"2">>],
     [word |-> <<"d", "a">>, data |-> <<"1">>]}

\* the characters of the queries
QueryAlphabet == {"a", "s"}

Init ==
    /\ n \in {t \in SUBSET Dictionary : Cardinality(t) <= MaxWords}
    /\ s \in Strings(QueryAlphabet, MaxQueryLen)
    /\ target \in 0..MaxTarget
    /\ max \in 1..MaxResults
    /\ f = <<>> /\ k = 0 /\ res = <<>> /\ lim = WZero /\ last = 0
    /\ pc = "start"
    /\ all_keys = <<>>
    /\ fn = "none" /\ args = <<>> /\ ret = <<>>
    /\ dict = <<>> /\ calls = <<>>

\* lines 327-332: search_lev runs and the buffer is made
SearchLev ==
    /\ pc = "start"
    /\ f' \in search_lev(n, s, <<>>, target)
    /\ res' = MakeRes(max)
    /\ lim' = WZero
    /\ last' = 0
    /\ k' = 1
    /\ pc' = "loop"
    /\ UNCHANGED <<n, s, target, max, all_keys, fnVars, goVars>>

\* what every iteration of the loop does besides the buffer
Iterate(st) ==
    /\ res' = st.res
    /\ lim' = st.lim
    /\ last' = st.last
    /\ k' = k + 1
    /\ all_keys' = IF WeighFillsKeys(f[k], s) THEN FillAllKeys(all_keys) ELSE all_keys
    /\ UNCHANGED <<n, s, target, max, f, pc, fnVars, goVars>>

\* an iteration whose candidate is below the threshold (line 341 is false)
Ignore ==
    /\ pc = "loop" /\ k <= Len(f)
    /\ ~WGeq(weigh(f[k], s).Weight, NextLim(lim, weigh(f[k], s)))
    /\ \E st \in PartialMatchStep([res |-> res, lim |-> lim, last |-> last],
                                  f[k], s, target, max) : Iterate(st)

\* an iteration that takes the branch of line 343: res[last] is filled
ReplaceLowest ==
    /\ pc = "loop" /\ k <= Len(f)
    /\ WGeq(weigh(f[k], s).Weight, NextLim(lim, weigh(f[k], s)))
    /\ Filled(res, last)
    /\ \E st \in PartialMatchStep([res |-> res, lim |-> lim, last |-> last],
                                  f[k], s, target, max) : Iterate(st)

\* an iteration that takes the branch of line 356: res[last] is written
Insert ==
    /\ pc = "loop" /\ k <= Len(f)
    /\ WGeq(weigh(f[k], s).Weight, NextLim(lim, weigh(f[k], s)))
    /\ ~Filled(res, last)
    /\ last < max
    /\ \E st \in PartialMatchStep([res |-> res, lim |-> lim, last |-> last],
                                  f[k], s, target, max) : Iterate(st)

\* line 369: return res
Return ==
    /\ pc = "loop" /\ k > Len(f)
    /\ pc' = "done"
    /\ UNCHANGED <<n, s, target, max, f, k, res, lim, last, all_keys, fnVars, goVars>>

Next == SearchLev \/ Ignore \/ ReplaceLowest \/ Insert \/ Return

Spec == Init /\ [][Next]_vars

-----------------------------------------------------------------------------
(* The pure-function harness: the arguments are drawn in Init and one      *)
(* action applies each function.                                           *)

PartialMatchIdle ==
    /\ n = {} /\ s = <<>> /\ target = 0 /\ max = 0 /\ f = <<>> /\ k = 0
    /\ res = <<>> /\ lim = 0 /\ last = 0 /\ pc = "idle"

InitDist ==
    /\ PartialMatchIdle
    /\ all_keys = <<>>
    /\ fn = "none"
    /\ args \in Strings(Alphabet, MaxLen) \X Strings(Alphabet, MaxLen)
    /\ ret = <<>>
    /\ dict = <<>> /\ calls = <<>>

CallLevenshtein ==
    /\ fn = "none"
    /\ fn' = "levenshtein"
    /\ ret' = levenshtein(args[1], args[2])
    /\ UNCHANGED <<args, pmVars, all_keys, goVars>>

CallLd ==
    /\ fn = "none"
    /\ fn' = "ld"
    /\ ret' = ld(args[1], args[2])
    /\ UNCHANGED <<args, pmVars, all_keys, goVars>>

CallLevenshteinWithOperations ==
    /\ fn = "none"
    /\ fn' = "levenshtein_with_operations"
    /\ ret' = levenshtein_with_operations(args[1], args[2])
    /\ UNCHANGED <<args, pmVars, all_keys, goVars>>

NextDist == CallLevenshtein \/ CallLd \/ CallLevenshteinWithOperations

SpecDist == InitDist /\ [][NextDist]_vars

-----------------------------------------------------------------------------
(* Reference distances, defined by their recurrences on prefix lengths.    *)

RECURSIVE EditDistance(_, _, _, _)
\* the classic Levenshtein distance of a[1..i] and b[1..j]
EditDistance(a, b, i, j) ==
    IF i = 0 THEN j
    ELSE IF j = 0 THEN i
    ELSE min(<<EditDistance(a, b, i - 1, j) + 1,
               EditDistance(a, b, i, j - 1) + 1,
               EditDistance(a, b, i - 1, j - 1) + (IF a[i] = b[j] THEN 0 ELSE 1)>>)

RECURSIVE AlignmentDistance(_, _, _, _)
\* the optimal-string-alignment distance of a[1..i] and b[1..j]: as above,
\* plus the exchange of two adjacent characters at cost 1
AlignmentDistance(a, b, i, j) ==
    IF i = 0 THEN j
    ELSE IF j = 0 THEN i
    ELSE
      LET three == min(<<AlignmentDistance(a, b, i - 1, j) + 1,
                         AlignmentDistance(a, b, i, j - 1) + 1,
                         AlignmentDistance(a, b, i - 1, j - 1)
                             + (IF a[i] = b[j] THEN 0 ELSE 1)>>)
      IN  IF i > 1 /\ j > 1 /\ a[i] = b[j - 1] /\ a[i - 1] = b[j]
          THEN min(<<three, AlignmentDistance(a, b, i - 2, j - 2) + 1>>)
          ELSE three

-----------------------------------------------------------------------------
(* Claims about the distance functions (checked under SpecDist).           *)

\* C6: levenshtein(a, b) is the classic Levenshtein distance of a and b
\* (insertions, deletions and substitutions at cost 1 each).
C6_LevenshteinIsClassic ==
    fn = "levenshtein" =>
        ret = EditDistance(args[1], args[2], Len(args[1]), Len(args[2]))

\* C7: element 0 of levenshtein_with_operations(a, b) is the
\* optimal-string-alignment (Damerau-Levenshtein variant) distance.
C7_TotalIsAlignmentDistance ==
    fn = "levenshtein_with_operations" =>
        ret[1] = AlignmentDistance(args[1], args[2], Len(args[1]), Len(args[2]))

\* C7 witness: a call on two strings that differ by an adjacent exchange,
\* where the alignment distance (1) is below the classic distance (2).
C7_Witness ==
    /\ fn = "levenshtein_with_operations"
    /\ args = << <<"a", "b">>, <<"b", "a">> >>
    /\ ret[1] = 1

\* C8: the operation counts of levenshtein_with_operations(a, b) add up to
\* its total, for all a and b including the empty string.
C8_CountsSumToTotal ==
    fn = "levenshtein_with_operations" => ret[2] + ret[3] + ret[4] = ret[1]

\* C9: levenshtein is symmetric: levenshtein(a, b) = levenshtein(b, a).
C9_LevenshteinSymmetric ==
    fn = "levenshtein" => ret = levenshtein(args[2], args[1])

-----------------------------------------------------------------------------
(* The KeyProximity harness: one call with any two characters, on an       *)
(* all_keys that is still empty or that an earlier call has filled.        *)

\* the characters of the table, the upper-case letters, and two characters
\* the table does not hold
KeyChars ==
    UNION {{keys[r][c] : c \in DOMAIN keys[r]} : r \in DOMAIN keys}
        \cup {UpperCase[i] : i \in DOMAIN UpperCase} \cup {"!", "~"}

InitKeys ==
    /\ PartialMatchIdle
    /\ all_keys \in {<<>>, FillAllKeys(<<>>)}
    /\ fn = "none"
    /\ args \in KeyChars \X KeyChars
    /\ ret = <<>>
    /\ dict = <<>> /\ calls = <<>>

CallKeyProximity ==
    /\ fn = "none"
    /\ fn' = "KeyProximity"
    /\ all_keys' = IF args[1] = args[2] THEN all_keys ELSE FillAllKeys(all_keys)
    /\ ret' = KeyProximityOn(all_keys', args[1], args[2])
    /\ UNCHANGED <<args, pmVars, goVars>>

NextKeys == CallKeyProximity

SpecKeys == InitKeys /\ [][NextKeys]_vars

\* the characters of the table other than the space
TableChars == UNION {{keys[r][c] : c \in DOMAIN keys[r]} : r \in DOMAIN keys} \ {" "}

\* the row and the column of a table character, counted from 0
RowOf(ch) == CHOOSE r \in 0..3 : \E c \in 0..12 : keys[r + 1][c + 1] = ch
ColOf(ch) == CHOOSE c \in 0..12 : keys[RowOf(ch) + 1][c + 1] = ch

\* the Chebyshev distance of two table characters
Chebyshev(x, y) ==
    maxOf(<<abs(RowOf(x) - RowOf(y)), abs(ColOf(x) - ColOf(y))>>)

\* C10: for two distinct non-space characters of the table, KeyProximity is
\* the Chebyshev distance of their rows and columns in the table (plus 1 if
\* they differ in letter case, which two table characters never do).
C10_KeyProximityIsChebyshev ==
    (/\ fn = "KeyProximity"
     /\ args[1] \in TableChars /\ args[2] \in TableChars
     /\ args[1] # args[2])
        => ret = Chebyshev(args[1], args[2])
                 + (IF (ToLower(args[1]) = args[1]) # (ToLower(args[2]) = args[2])
                    THEN 1 ELSE 0)

-----------------------------------------------------------------------------
(* Claims about PartialMatch (checked under Spec).                         *)

\* the loop is running or has returned: res is the buffer
Selecting == pc \in {"loop", "done"}

\* how often x occurs in the sequence q
Count(q, x) == Cardinality({i \in DOMAIN q : q[i] = x})

\* the paths search_lev evaluates: the parents of the childless word nodes
LeafParents(trie) ==
    {SubSeq(e.word, 1, Len(e.word) - 1) :
        e \in {x \in trie : Len(x.word) >= 2 /\ Kids(trie, x.word) = {}}}

\* C1: when a candidate's word equals the query, the returned buffer holds
\* that candidate and no entry with a different word outranks it.
C1_ExactMatchRankedFirst ==
    (pc = "done" /\ \E i \in DOMAIN f : f[i].Word = s)
        => \E j \in DOMAIN res :
              /\ res[j].Word = s
              /\ \A i \in DOMAIN res :
                    res[i].Word # s => ~WGreater(res[i].Weight, res[j].Weight)

\* C2: every non-empty entry of the buffer has a total edit distance to the
\* query within the budget, after each candidate and at return.
C2_EntriesWithinBudget ==
    Selecting =>
        \A i \in DOMAIN res : res[i].Word # <<>> => res[i].ld[1] <= target

\* C2 witness: PartialMatch has returned an entry at exactly the budget
\* while the trie also held a path beyond the budget.
C2_Witness ==
    /\ pc = "done"
    /\ target >= 1
    /\ \E i \in DOMAIN res : res[i].Word # <<>> /\ res[i].ld[1] = target
    /\ \E b \in LeafParents(n) : levenshtein_with_operations(b, s)[1] > target

\* C3: the buffer has exactly max entries in every state of the loop and
\* at return.
C3_BufferLengthIsMax == Selecting => Len(res) = max

\* C3 witness: more candidates than max were generated and accepted, fewer
\* than max in another run; here the former, at return.
C3_Witness ==
    /\ pc = "done"
    /\ Len(f) > max
    /\ \A i \in DOMAIN res : res[i].Word # <<>>
    /\ Len(res) = max

\* C4: the multiset of entries returned does not depend on the order in
\* which search_lev emits the candidates.
C4_OrderIndependent ==
    pc = "done" =>
        \A g \in search_lev(n, s, <<>>, target) :
            \A r \in PartialMatch(g, s, target, max) :
                \A x \in {r[i] : i \in DOMAIN r} \cup {res[i] : i \in DOMAIN res} :
                    Count(r, x) = Count(res, x)

\* C5 (as claimed): the buffer is sorted descending by weight after every
\* candidate and at return.
C5_SortedDescending ==
    Selecting =>
        \A i \in 1..(Len(res) - 1) : WGeq(res[i].Weight, res[i + 1].Weight)

\* C5 (amended): the buffer is sorted ascending by weight after every
\* candidate and at return: the unused slots (weight 0) come first and the
\* best entry is last.
C5_SortedAscending ==
    Selecting =>
        \A i \in 1..(Len(res) - 1) : WGeq(res[i + 1].Weight, res[i].Weight)

\* C5 witness: a returned buffer with an unused slot and two entries of
\* different weights.
C5_Witness ==
    /\ pc = "done"
    /\ Len(res) = 3
    /\ res[1].Word = <<>>
    /\ res[2].Word # <<>>
    /\ WLess(res[2].Weight, res[3].Weight)

\* the stored words search_lev is to emit: the words of the childless
\* terminal nodes whose distance to the query is within the limit
StoredLeafWordsWithin(trie, query, limit) ==
    {e.word : e \in {x \in trie :
        /\ Kids(trie, x.word) = {}
        /\ levenshtein_with_operations(x.word, query)[1] <= limit}}

\* C11: the set of the words search_lev emits is the set of the complete
\* stored words of the childless terminal nodes within the limit: each
\* emitted Word is a stored word and each such stored word is emitted.
C11_EmitsStoredWords ==
    Selecting =>
        {f[i].Word : i \in DOMAIN f} = StoredLeafWordsWithin(n, s, target)

-----------------------------------------------------------------------------
(* Concurrent KeyProximity calls.  The code takes no lock, so the calls    *)
(* interleave at every read and write of all_keys: the test of line 175,   *)
(* the read and the write of each `all_keys = append(all_keys, v...)`, and *)
(* the evaluation of `range all_keys`.  A slice is read and written here   *)
(* as one value; a torn slice header, which the race also allows, only     *)
(* adds outcomes to the ones below.                                        *)

\* the number of goroutines calling KeyProximity
MaxCalls == 2

Goroutines == 1..MaxCalls

\* the characters the concurrent calls are made on
CallChars == {"a", "s"}

InitConc ==
    /\ PartialMatchIdle
    /\ all_keys = <<>>
    /\ fn = "none" /\ args = <<>> /\ ret = <<>>
    /\ dict = <<>>
    /\ calls \in [Goroutines ->
                    {[pc |-> "entry", original |-> o, target |-> t, row |-> 0,
                      read |-> <<>>, table |-> <<>>, ret |-> 0] :
                        o \in CallChars, t \in CallChars}]

\* lines 171-179: equal runes return 0; otherwise len(all_keys) is tested
TestEmpty(g) ==
    /\ calls[g].pc = "entry"
    /\ calls' = [calls EXCEPT ![g] =
          IF @.original = @.target THEN [@ EXCEPT !.pc = "done", !.ret = 0]
          ELSE IF Len(all_keys) = 0 THEN [@ EXCEPT !.pc = "read", !.row = 1]
          ELSE [@ EXCEPT !.pc = "range"]]
    /\ UNCHANGED <<pmVars, all_keys, fnVars, dict>>

\* line 177, first half: append reads the slice all_keys
AppendRead(g) ==
    /\ calls[g].pc = "read"
    /\ calls' = [calls EXCEPT ![g] = [@ EXCEPT !.pc = "write", !.read = all_keys]]
    /\ UNCHANGED <<pmVars, all_keys, fnVars, dict>>

\* line 177, second half: the slice read, extended by the row, is stored
AppendWrite(g) ==
    /\ calls[g].pc = "write"
    /\ all_keys' = calls[g].read \o keys[calls[g].row]
    /\ calls' = [calls EXCEPT ![g] =
          IF @.row = Len(keys) THEN [@ EXCEPT !.pc = "range"]
          ELSE [@ EXCEPT !.pc = "read", !.row = @ + 1]]
    /\ UNCHANGED <<pmVars, fnVars, dict>>

\* lines 190-214: `range all_keys` evaluates the slice once; the loop and
\* the result work on that value
RangeAllKeys(g) ==
    /\ calls[g].pc = "range"
    /\ calls' = [calls EXCEPT ![g] =
          [@ EXCEPT !.pc = "done", !.table = all_keys,
                    !.ret = KeyProximityOn(all_keys, calls[g].original,
                                           calls[g].target)]]
    /\ UNCHANGED <<pmVars, all_keys, fnVars, dict>>

NextConc ==
    \E g \in Goroutines :
        TestEmpty(g) \/ AppendRead(g) \/ AppendWrite(g) \/ RangeAllKeys(g)

SpecConc == InitConc /\ [][NextConc]_vars

\* the number of entries of the complete table
TableSize == Len(keys) * RowWidth

\* C12: under any interleaving of concurrent KeyProximity calls the table
\* all_keys is built exactly once: when the calls are over it has exactly
\* 52 entries if it was built, no call ranges over a partly filled table,
\* and it is not written again once it has its 52 entries.
C12_TableBuiltOnce ==
    /\ [](calls # <<>> =>
            /\ (/\ \A g \in DOMAIN calls : calls[g].pc = "done"
                /\ all_keys # <<>>) => Len(all_keys) = TableSize
            /\ \A g \in DOMAIN calls :
                  (calls[g].pc = "done" /\ calls[g].original # calls[g].target)
                      => Len(calls[g].table) = TableSize)
    /\ [][Len(all_keys) = TableSize => all_keys' = all_keys]_vars

-----------------------------------------------------------------------------
(* Correct: the linear scan of the word list dict.                         *)

\* most words in dict
MaxDict == 3
\* largest limit handed to Correct
MaxLim == 2

\* the characters of the words of dict and of the word corrected
DictAlphabet == {"a", "b"}

\* loadDict: the lines of the dictionary file
DictLines == UNION {[1..m -> Strings(DictAlphabet, 2)] : m \in 0..MaxDict}

\* matches[key] = l on a Go map
MapSet(matches, key, l) ==
    [w \in DOMAIN matches \cup {key} |-> IF w = key THEN l ELSE matches[w]]

RECURSIVE CorrectFrom(_, _, _, _, _)
\* the loop of lines 36-43 from Go's index i - 1 onwards
CorrectFrom(d, word, i, limit, matches) ==
    IF i > Len(d) THEN matches
    ELSE
      LET l == levenshtein(word, d[i])
      IN  IF l <= limit
          THEN CorrectFrom(d, word, i + 1, l, MapSet(matches, d[i], l))
          ELSE CorrectFrom(d, word, i + 1, limit, matches)

\* func Correct(word string, lim float64) map[string]float64
Correct(d, word, limit) == CorrectFrom(d, word, 1, limit, <<>>)

InitCorrect ==
    /\ PartialMatchIdle
    /\ all_keys = <<>>
    /\ fn = "none"
    /\ args \in Strings(DictAlphabet, 2) \X (0..MaxLim)
    /\ ret = <<>>
    /\ dict \in DictLines
    /\ calls = <<>>

CallCorrect ==
    /\ fn = "none"
    /\ fn' = "Correct"
    /\ ret' = Correct(dict, args[1], args[2])
    /\ UNCHANGED <<args, pmVars, all_keys, goVars>>

NextCorrect == CallCorrect

SpecCorrect == InitCorrect /\ [][NextCorrect]_vars

\* C13: Correct(word, lim) returns exactly the words of the list whose
\* distance to word is at most lim, each mapped to its distance, whatever
\* the order of the list.  The distance is taken as Correct measures it,
\* with levenshtein.
C13_CorrectReturnsAllWithinLimit ==
    fn = "Correct" =>
        /\ DOMAIN ret = {dict[i] : i \in {j \in DOMAIN dict :
                            levenshtein(args[1], dict[j]) <= args[2]}}
        /\ \A w \in DOMAIN ret : ret[w] = levenshtein(args[1], w)

-----------------------------------------------------------------------------
(* PartialMatch on queries that hold upper-case letters.                   *)

\* the characters of the queries, in both cases
CaseAlphabet == {"a", "A"}

InitCase ==
    /\ n \in {t \in SUBSET Dictionary : Cardinality(t) <= MaxWords}
    /\ s \in Strings(CaseAlphabet, MaxQueryLen)
    /\ target \in 0..MaxTarget
    /\ max \in 1..MaxResults
    /\ f = <<>> /\ k = 0 /\ res = <<>> /\ lim = WZero /\ last = 0
    /\ pc = "start"
    /\ all_keys = <<>>
    /\ fn = "none" /\ args = <<>> /\ ret = <<>>
    /\ dict = <<>> /\ calls = <<>>

SpecCase == InitCase /\ [][Next]_vars

\* the word w in lower case
Lowercase(w) == [i \in DOMAIN w |-> ToLower(w[i])]

\* C14: words are compared in lower case: on a trie of lower-case words,
\* PartialMatch(n, s, target, max) returns a buffer that
\* PartialMatch(n, lowercase(s), target, max) can return.
C14_QueryCaseIgnored ==
    pc = "done" =>
        \E g \in search_lev(n, Lowercase(s), <<>>, target) :
            res \in PartialMatch(g, Lowercase(s), target, max)

-----------------------------------------------------------------------------
(* The weigh harness: one candidate, built as search_lev builds it, is     *)
(* scored against a query.                                                 *)

\* the characters of the candidates and queries scored: two keys of the
\* table and two characters the table does not hold
WeighAlphabet == {"a", "b", "!", "~"}

\* largest frequency payload
MaxFrequency == 1

\* line 104: Correction{ld: lev, Word: b, Weight: 0, frequency: freq}
Candidate(b, query, freq) ==
    [ZeroCorrection EXCEPT !.ld = levenshtein_with_operations(b, query),
                           !.Word = b, !.frequency = freq]

InitWeigh ==
    /\ PartialMatchIdle
    /\ all_keys = <<>>
    /\ fn = "none"
    /\ args \in (Strings(WeighAlphabet, MaxLen) \ {<<>>})
                    \X Strings(WeighAlphabet, MaxQueryLen) \X (0..MaxFrequency)
    /\ ret = <<>>
    /\ dict = <<>> /\ calls = <<>>

\* v.weigh(s) on the candidate of the path args[1] for the query args[2]
CallWeigh ==
    /\ fn = "none"
    /\ fn' = "weigh"
    /\ ret' = weigh(Candidate(args[1], args[2], args[3]), args[2])
    /\ all_keys' = IF WeighFillsKeys(Candidate(args[1], args[2], args[3]), args[2])
                   THEN FillAllKeys(all_keys) ELSE all_keys
    /\ UNCHANGED <<args, pmVars, goVars>>

NextWeigh == CallWeigh

SpecWeigh == InitWeigh /\ [][NextWeigh]_vars

\* the candidate of the path w, scored against the query and frequency of
\* the call in args
OtherScored(w) == weigh(Candidate(w, args[2], args[3]), args[2])

\* two scored candidates agree in the edit-distance breakdown, the keyboard
\* distance, the frequency and the shared characters
SameOtherSignals(c, d, query) ==
    /\ c.ld = d.ld
    /\ c.key_len = d.key_len
    /\ c.frequency = d.frequency
    /\ SharedCharacters(query, c.Word) = SharedCharacters(query, d.Word)

\* C15: the weight is monotone in prefix_len and in suffix_len: of two
\* non-exact candidates scored against the same query that agree in every
\* other signal, the one with the larger prefix_len (suffix_len) does not
\* get the smaller Weight.
C15_MonotoneInPrefixAndSuffix ==
    (fn = "weigh" /\ args[1] # args[2]) =>
        \A w \in Strings(WeighAlphabet, MaxLen) \ {<<>>, args[2]} :
            SameOtherSignals(ret, OtherScored(w), args[2]) =>
                /\ (/\ ret.suffix_len = OtherScored(w).suffix_len
                    /\ ret.prefix_len > OtherScored(w).prefix_len)
                        => WGeq(ret.Weight, OtherScored(w).Weight)
                /\ (/\ ret.prefix_len = OtherScored(w).prefix_len
                    /\ ret.suffix_len > OtherScored(w).suffix_len)
                        => WGeq(ret.Weight, OtherScored(w).Weight)

-----------------------------------------------------------------------------
(* The PrefixLength harness: prefix_len and suffix_len as weigh computes   *)
(* them (lines 291-293), on valid UTF-8 strings.                           *)

\* the runes of the strings: two ASCII letters and one letter of two bytes
PrefixRunes == {"a", "b", "U+00E9"}

RECURSIVE Encode(_, _)
\* the bytes of the string whose runes are rs[i..]
Encode(rs, i) ==
    IF i > Len(rs) THEN <<>> ELSE EncodeRune(rs[i]) \o Encode(rs, i + 1)

\* the strings of at most MaxLen runes
Utf8Strings == {Encode(rs, 1) : rs \in Strings(PrefixRunes, MaxLen)}

InitPrefix ==
    /\ PartialMatchIdle
    /\ all_keys = <<>>
    /\ fn = "none"
    /\ args \in Utf8Strings \X Utf8Strings
    /\ ret = <<>>
    /\ dict = <<>> /\ calls = <<>>

\* line 291: c.prefix_len = PrefixLength(c.Word, original)
CallPrefixLength ==
    /\ fn = "none"
    /\ fn' = "PrefixLength"
    /\ ret' = PrefixLength(args[1], args[2])
    /\ UNCHANGED <<args, pmVars, all_keys, goVars>>

\* line 293: c.suffix_len = PrefixLength(reverse(c.Word), reverse(original))
CallSuffixLength ==
    /\ fn = "none"
    /\ fn' = "suffix_len"
    /\ ret' = PrefixLength(reverse(args[1]), reverse(args[2]))
    /\ UNCHANGED <<args, pmVars, all_keys, goVars>>

NextPrefix == CallPrefixLength \/ CallSuffixLength

SpecPrefix == InitPrefix /\ [][NextPrefix]_vars

RECURSIVE Runes(_, _)
\* the characters of the string w from the byte position i onwards
Runes(w, i) ==
    IF i > Len(w) THEN <<>>
    ELSE <<DecodeRune(w, i).rune>> \o Runes(w, i + DecodeRune(w, i).width)

\* the length of the longest common prefix of two sequences
CommonPrefix(x, y) ==
    LET same == {m \in 0..min(<<Len(x), Len(y)>>) : SubSeq(x, 1, m) = SubSeq(y, 1, m)}
    IN  CHOOSE m \in same : \A h \in same : h <= m

\* the length of the longest common suffix of two sequences
CommonSuffix(x, y) ==
    LET same == {m \in 0..min(<<Len(x), Len(y)>>) :
                    SubSeq(x, Len(x) - m + 1, Len(x)) = SubSeq(y, Len(y) - m + 1, Len(y))}
    IN  CHOOSE m \in same : \A h \in same : h <= m

\* C16: PrefixLength(o, t) is the length of the longest common prefix of o
\* and t, in characters, and suffix_len, computed as
\* PrefixLength(reverse(o), reverse(t)), is the length of their longest
\* common suffix.
C16_PrefixAndSuffixLength ==
    /\ fn = "PrefixLength" =>
          ret = CommonPrefix(Runes(args[1], 1), Runes(args[2], 1))
    /\ fn = "suffix_len" =>
          ret = CommonSuffix(Runes(args[1], 1), Runes(args[2], 1))

-----------------------------------------------------------------------------
(* Claims about the threshold and the replacement (checked under Spec).    *)

\* C17: lim is set once, to the weight of the first scored candidate, and
\* keeps that value; a later candidate whose weight is below it leaves the
\* buffer unchanged, and no non-empty entry of the buffer has a weight
\* below the first candidate's weight.
C17_ThresholdIsFirstWeight ==
    /\ []((Selecting /\ k > 1) =>
            /\ lim = weigh(f[1], s).Weight
            /\ \A i \in DOMAIN res :
                  res[i].Word # <<>> => WGeq(res[i].Weight, weigh(f[1], s).Weight))
    /\ [][(/\ pc = "loop" /\ 1 < k /\ k <= Len(f)
           /\ WLess(weigh(f[k], s).Weight, lim)) => res' = res]_vars

\* C17 witness: PartialMatch has returned a non-empty entry after a later
\* candidate fell below the first candidate's weight.
C17_Witness ==
    /\ pc = "done"
    /\ \E j \in 2..Len(f) : WLess(weigh(f[j], s).Weight, weigh(f[1], s).Weight)
    /\ \E i \in DOMAIN res : res[i].Word # <<>>
    /\ lim = weigh(f[1], s).Weight

\* the buffer has no unfilled slot
NoUnfilledSlot == \A i \in DOMAIN res : res[i].Word # <<>>

\* the entries of minimum weight
MinWeightEntries ==
    {i \in DOMAIN res : \A j \in DOMAIN res : ~WLess(res[j].Weight, res[i].Weight)}

\* C18: when an iteration changes a buffer that has no unfilled slot, it
\* replaces an entry of minimum weight by the candidate, whose weight is
\* strictly greater than that minimum and whose edit distance is within the
\* budget, and sorts; otherwise the buffer is unchanged.
C18_ReplacesMinimum ==
    [][(pc = "loop" /\ k <= Len(f) /\ NoUnfilledSlot /\ res' # res) =>
          \E i \in MinWeightEntries :
              /\ WGreater(weigh(f[k], s).Weight, res[i].Weight)
              /\ weigh(f[k], s).ld[1] <= target
              /\ res' \in SortSlice(Store(res, i, weigh(f[k], s)))]_vars

-----------------------------------------------------------------------------
(* Further claims about weigh (checked under SpecWeigh) and Metrics.       *)

\* C19: only an exact match gets the weight +Inf: for a candidate word
\* that differs from the query, over any characters, key_len is not 0 and
\* the Weight is finite.
C19_OnlyExactMatchIsInfinite ==
    (fn = "weigh" /\ args[1] # args[2]) =>
        /\ ret.key_len # 0
        /\ ~ret.Weight.inf

\* func (c *Correction) Metrics() map[string]float64
Metrics(c) ==
    [key \in {"levenshtein", "ins/del", "subs", "transpositions", "frequency",
              "prefix-length", "suffix-length", "keyboard-length"} |->
        IF key = "levenshtein" THEN c.ld[1]
        ELSE IF key = "ins/del" THEN c.ld[2]
        ELSE IF key = "subs" THEN c.ld[3]
        ELSE IF key = "transpositions" THEN c.ld[4]
        ELSE IF key = "frequency" THEN c.frequency
        ELSE IF key = "prefix-length" THEN c.prefix_len
        ELSE IF key = "suffix-length" THEN c.suffix_len
        ELSE c.key_len]

\* C20: for every Correction search_lev produced, Metrics reports under
\* "subs" the substitutions, under "ins/del" the insertions and deletions
\* and under "transpositions" the transpositions that
\* levenshtein_with_operations tallied for its Word and the query (its
\* results 1, 2 and 3, which weigh multiplies by LEV_SUB_WEIGHT,
\* LEV_INDEL_WEIGHT and LEV_SWAP_WEIGHT).
C20_MetricsLabels ==
    Selecting =>
        \A i \in DOMAIN f :
            /\ Metrics(f[i])["subs"] =
                  levenshtein_with_operations(f[i].Word, s)[2]
            /\ Metrics(f[i])["ins/del"] =
                  levenshtein_with_operations(f[i].Word, s)[3]
            /\ Metrics(f[i])["transpositions"] =
                  levenshtein_with_operations(f[i].Word, s)[4]

=============================================================================
